---- MODULE Spec2Model ----
(***************************************************************************)
(* A model of ApiClient (src/api_client.py): construction and token        *)
(* normalisation, call_api in its synchronous and threaded form, request,  *)
(* validate_response and clean_kwargs.                                     *)
(*                                                                         *)
(* The remote service and the requests library are the environment: a      *)
(* response is a status code, a header mapping and a raw body text, and    *)
(* response.json() is the library's parser applied to that text.           *)
(***************************************************************************)
EXTENDS Integers, Sequences, FiniteSets, TLC

VARIABLES
    raw_token,       \* the access_token argument __init__ was given
    access_token,    \* self.access_token
    configuration,   \* self.configuration
    default_headers, \* self.default_headers
    session,         \* self.session, the primary requests.Session
    last_response,   \* self.last_response; the attribute may not exist
    mappings,        \* the caller's header_params dict objects, by identity
    writers,         \* for every shared object, the threads that wrote it
    lastCall,        \* the invocation that last ended on the calling thread
    workers,         \* the threads call_api started, one record each
    kw               \* an invocation of clean_kwargs

vars == <<raw_token, access_token, configuration, default_headers, session,
          last_response, mappings, writers, lastCall, workers, kw>>

clientVars == <<raw_token, access_token, configuration, default_headers, session>>

-----------------------------------------------------------------------------
(* Bounds of the model. *)

\* threads call_api may start in one behaviour
MaxWorkers == 2
\* entries in the catch-all bucket given to clean_kwargs
MaxKwargs == 2

-----------------------------------------------------------------------------
(* Python values. *)

\* None, and JSON null
None == [t |-> "none"]
Num(n) == [t |-> "num", n |-> n]
Str(s) == [t |-> "str", s |-> s]
\* a list
List(s) == [t |-> "list", s |-> s]
\* a dict: a function from its keys to its values
Dict(f) == [t |-> "dict", f |-> f]
NoEntries == [k \in {} |-> None]

\* the outcome of a call: a returned value or a raised exception
Return(v) == [kind |-> "return", value |-> v]
Raise(e) == [kind |-> "raise", error |-> e]
Raised(o, name) == o.kind = "raise" /\ o.error.name = name

\* models/exception.py, as imported at the top of the file
InvalidHttpMethodError == [name |-> "InvalidHttpMethodError"]
ResourceNotFoundError == [name |-> "ResourceNotFoundError"]
HttpCodeError(response) == [name |-> "HttpCodeError", response |-> response]
\* built-in exceptions the interpreter and the JSON parser raise
AttributeError == [name |-> "AttributeError"]
JSONDecodeError == [name |-> "JSONDecodeError"]
TypeError(key) == [name |-> "TypeError", key |-> key]

\* d.get(key) on a Python value: only a dict has the method
DictGet(d, key) ==
    IF d.t = "dict"
    THEN Return(IF key \in DOMAIN d.f THEN d.f[key] ELSE None)
    ELSE Raise(AttributeError)

\* d.update({key: val}) on a mapping
DictUpdate(f, key, val) ==
    [k \in DOMAIN f \cup {key} |-> IF k = key THEN val ELSE f[k]]

\* bool(v) of a mapping's entries: an empty dict is falsy
Truthy(f) == DOMAIN f # {}

-----------------------------------------------------------------------------
(* The environment: the responses the service can send. *)

StatusCodes == {200, 204, 205, 400, 500}

\* raw body texts
Bodies == {
    "{\"data\": 1}",
    "{\"error\": {\"code\": 283}}",
    "{\"error\": {\"code\": 100}}",
    "{\"error\": {}}",
    "{\"error\": \"bad\"}",
    "{}",
    "[]",
    "<html>" }

ResponseHeaders == [k \in {"Content-Type"} |-> "application/json"]

Responses ==
    [status_code : StatusCodes, headers : {ResponseHeaders}, text : Bodies]

\* response.json(): requests' JSON parser on the body text
json(text) ==
    CASE text = "{\"data\": 1}" ->
            Return(Dict([k \in {"data"} |-> Num(1)]))
      [] text = "{\"error\": {\"code\": 283}}" ->
            Return(Dict([k \in {"error"} |-> Dict([c \in {"code"} |-> Num(283)])]))
      [] text = "{\"error\": {\"code\": 100}}" ->
            Return(Dict([k \in {"error"} |-> Dict([c \in {"code"} |-> Num(100)])]))
      [] text = "{\"error\": {}}" ->
            Return(Dict([k \in {"error"} |-> Dict(NoEntries)]))
      [] text = "{\"error\": \"bad\"}" ->
            Return(Dict([k \in {"error"} |-> Str("bad")]))
      [] text = "{}" -> Return(Dict(NoEntries))
      [] text = "[]" -> Return(List(<<>>))
      [] OTHER -> Raise(JSONDecodeError)

\* `response.json` without a call is a bound method, and a bound method is true
BoundMethodTruth == TRUE

-----------------------------------------------------------------------------
(* validate_response and request. *)

SuccessCodes_Off == 200..203
\* range(200, 205)
SuccessCodes == 200..204

\* the error code of a missing resource
NotFoundCode == 283

validate_response_AnyCode(response) ==
    IF response.status_code \in SuccessCodes /\ BoundMethodTruth
    THEN Return(response)
    ELSE IF response.status_code = 400
    THEN LET body == json(response.text) IN
         IF body.kind = "raise" THEN body
         ELSE LET error == DictGet(body.value, "error") IN
              IF error.kind = "raise" THEN error
              ELSE LET code == DictGet(error.value, "code") IN
                   IF code.kind = "raise" THEN code
                   ELSE Raise(ResourceNotFoundError)
    ELSE Raise(HttpCodeError(response))
validate_response(response) ==
    IF response.status_code \in SuccessCodes /\ BoundMethodTruth
    THEN Return(response)
    ELSE IF response.status_code = 400
    THEN LET body == json(response.text) IN
         IF body.kind = "raise" THEN body
         ELSE LET error == DictGet(body.value, "error") IN
              IF error.kind = "raise" THEN error
              ELSE LET code == DictGet(error.value, "code") IN
                   IF code.kind = "raise" THEN code
                   ELSE IF code.value = Num(NotFoundCode)
                        THEN Raise(ResourceNotFoundError)
                        ELSE Raise(HttpCodeError(response))
    ELSE Raise(HttpCodeError(response))

HttpMethods_Off == {"POST", "PUT", "GET", "DELETE", "PATCH"}
\* the methods request accepts
HttpMethods == {"POST", "PUT", "GET", "DELETE"}

NoHeaders == [k \in {} |-> ""]

\* the HTTP request session.request puts on the wire: the session's headers
\* with the call's headers over them
WireRequest(method, url, sess, header_params, body) ==
    [session |-> sess.id, method |-> method, url |-> url,
     headers |-> [k \in DOMAIN sess.headers \cup DOMAIN header_params |->
                     IF k \in DOMAIN header_params
                     THEN header_params[k] ELSE sess.headers[k]],
     json |-> body]

\* request up to session.request: the method check, then the request goes out
request_send(method, url, sess, header_params, body) ==
    IF method \notin HttpMethods
    THEN [raised |-> TRUE, sent |-> <<>>]
    ELSE [raised |-> FALSE,
          sent |-> <<WireRequest(method, url, sess, header_params, body)>>]

\* request from the response on: validation, then the result is built
request_receive(response) ==
    LET valid == validate_response(response) IN
    IF valid.kind = "raise" THEN valid
    ELSE LET body == json(valid.value.text) IN
         IF body.kind = "raise" THEN body
         ELSE Return([status_code |-> valid.value.status_code,
                      headers |-> valid.value.headers,
                      body |-> body.value])

\* request: its outcome and the HTTP requests it issued; `response` is the
\* service's answer to the request, if one goes out
request(method, url, sess, header_params, body, response) ==
    LET s == request_send(method, url, sess, header_params, body) IN
    IF s.raised
    THEN [out |-> Raise(InvalidHttpMethodError), sent |-> s.sent]
    ELSE [out |-> request_receive(response), sent |-> s.sent]

-----------------------------------------------------------------------------
(* Construction. *)

Min(a, b) == IF a < b THEN a ELSE b

\* s[:n]
Prefix(s, n) == SubSeq(s, 1, Min(n, Len(s)))

\* __validate_access_token
validate_access_token(token) ==
    IF Prefix(token, 6) # "Bearer"
    THEN "Barear " \o token
    ELSE token

Tokens == {"Bearer abc", "abc"}

Host == "https://api.venmo.com/v1"
UserAgent == "Venmo/7.44.0 (iPhone; iOS 13.0; Scale/2.0)"

\* thread identities: the calling thread, and the threads call_api starts
MainThread == 0
WorkerIds == 1..MaxWorkers
Threads == {MainThread} \cup WorkerIds

\* a session is named after the thread that made it: self.session after the
\* calling thread, which ran __init__
PrimarySession == MainThread

\* the caller's header mappings: one with an entry, one empty
MappingIds == {"H1", "H2"}
NoMapping == "None"

\* the attribute self.last_response
Absent == [set |-> FALSE]
Present(v) == [set |-> TRUE, value |-> v]

NoOutcome == [kind |-> "none"]
NoCall == [op |-> "none"]

NoSession == [id |-> -1, headers |-> NoHeaders]

\* the arguments of a thread's __call_api
NoArgs == [path |-> "", method |-> "", header_params |-> NoMapping, body |-> None]

\* a thread: where it is, its session, the response it got, the outcome of
\* its request, and the arguments its callback was called with
IdleWorker ==
    [pc |-> "idle", args |-> NoArgs, session |-> NoSession, response |-> None,
     result |-> NoOutcome, callback |-> <<>>]

NoKwargsCall == [pc |-> "none"]

DefaultHeaders(token) ==
    [k \in {"Authorization", "User-Agent"} |->
        IF k = "Authorization" THEN token ELSE UserAgent]

\* the state __init__ leaves
Init ==
    /\ raw_token \in Tokens
    /\ access_token = validate_access_token(raw_token)
    /\ configuration = [host |-> Host]
    /\ default_headers = DefaultHeaders(access_token)
    /\ session = [id |-> PrimarySession, headers |-> default_headers]
    /\ last_response = Absent
    /\ mappings = [m \in MappingIds |->
                     IF m = "H1" THEN [k \in {"Accept"} |-> "*/*"] ELSE NoHeaders]
    /\ writers = [sessions |-> [s \in Threads |->
                                  IF s = PrimarySession THEN {MainThread} ELSE {}],
                  mappings |-> [m \in MappingIds |-> {}],
                  last_response |-> {}]
    /\ lastCall = NoCall
    /\ workers = [w \in WorkerIds |-> IdleWorker]
    /\ kw = NoKwargsCall

-----------------------------------------------------------------------------
(* The calls a caller makes: a request descriptor is the arguments of one. *)

SomeBody == Dict([k \in {"note"} |-> Str("hi")])

Methods == HttpMethods \cup {"PATCH", "get"}

SeqDescriptors ==
    {[path |-> "/me", method |-> m, header_params |-> NoMapping, body |-> None] :
        m \in Methods}
    \cup
    {[path |-> "/payments", method |-> "POST", header_params |-> h, body |-> SomeBody] :
        h \in MappingIds}
    \cup
    {[path |-> "/payments", method |-> "PUT", header_params |-> "H1",
      body |-> Dict(NoEntries)]}

ConcDescriptors ==
    {[path |-> "/me", method |-> "GET", header_params |-> NoMapping, body |-> None],
     [path |-> "/payments", method |-> "POST", header_params |-> "H1", body |-> SomeBody],
     [path |-> "/me", method |-> "PATCH", header_params |-> NoMapping, body |-> None]}

\* the calls made with a callback: one that sends, with the caller's headers
\* and a body, and one with a method request refuses
AsyncDescriptors ==
    {d \in ConcDescriptors : d.method # "GET"}

CallResponses ==
    {r \in Responses :
        \/ r.status_code = 200 /\ r.text = "{\"data\": 1}"
        \/ r.status_code = 204 /\ r.text = "{}"
        \/ r.status_code = 400 /\ r.text = "{\"error\": {\"code\": 283}}"
        \/ r.status_code = 500 /\ r.text = "<html>"}

\* bool(body) of a request body: None and the empty dict are falsy
BodyTruthy(body) == body.t = "dict" /\ DOMAIN body.f # {}

\* `header_params or {}`: the caller's dict goes on only if it is truthy
UsesCallers(hp) == hp # NoMapping /\ Truthy(mappings[hp])

\* header_params after `header_params or {}` and the Content-Type update
EffectiveHeaders(hp, body) ==
    LET base == IF UsesCallers(hp) THEN mappings[hp] ELSE NoHeaders IN
    IF BodyTruthy(body)
    THEN DictUpdate(base, "Content-Type", "application/json")
    ELSE base

\* the caller's dicts after header_params.update(...): update works in place
UpdatedMappings(hp, body) ==
    IF UsesCallers(hp) /\ BodyTruthy(body)
    THEN [mappings EXCEPT ![hp] = EffectiveHeaders(hp, body)]
    ELSE mappings

WroteMapping(wr, hp, body, t) ==
    IF UsesCallers(hp) /\ BodyTruthy(body)
    THEN [wr EXCEPT !.mappings[hp] = @ \cup {t}] ELSE wr

\* a request changes the session it goes through (cookies, connections)
WroteSession(wr, sid, sent, t) ==
    IF sent # <<>> THEN [wr EXCEPT !.sessions[sid] = @ \cup {t}] ELSE wr

WroteLast(wr, out, t) ==
    IF out.kind = "return" THEN [wr EXCEPT !.last_response = @ \cup {t}] ELSE wr

\* the handle threading.Thread gives
Thread(w) == [t |-> "thread", id |-> w]

\* __call_api run on thread t with session sess: all of it, to its outcome
call_api_body(d, sess, response) ==
    request(d.method, configuration.host \o d.path, sess,
            EffectiveHeaders(d.header_params, d.body), d.body, response)

\* call_api without a callback: __call_api on the calling thread
SyncCall(d, response) ==
    LET r == call_api_body(d, session, response) IN
    /\ mappings' = UpdatedMappings(d.header_params, d.body)
    /\ last_response' = IF r.out.kind = "return"
                        THEN Present(r.out.value) ELSE last_response
    /\ writers' = WroteLast(
                    WroteSession(
                      WroteMapping(writers, d.header_params, d.body, MainThread),
                      session.id, r.sent, MainThread),
                    r.out, MainThread)
    /\ lastCall' = [op |-> "call_api", callback |-> FALSE, method |-> d.method,
                    response |-> IF r.sent = <<>> THEN None ELSE response,
                    out |-> r.out, sent |-> r.sent, threads |-> 0]
    /\ UNCHANGED <<clientVars, workers, kw>>

\* request called directly with the primary session
RequestCall(d, response) ==
    LET hp == IF d.header_params = NoMapping
              THEN NoHeaders ELSE mappings[d.header_params]
        r == request(d.method, configuration.host \o d.path, session, hp,
                     d.body, response)
    IN
    /\ writers' = WroteSession(writers, session.id, r.sent, MainThread)
    /\ lastCall' = [op |-> "request", callback |-> FALSE, method |-> d.method,
                    response |-> IF r.sent = <<>> THEN None ELSE response,
                    out |-> r.out, sent |-> r.sent, threads |-> 0]
    /\ UNCHANGED <<clientVars, last_response, mappings, workers, kw>>

\* call_api with a callback: the thread is created and started, its handle
\* returned
AsyncCall(d) ==
    /\ \E w \in WorkerIds : workers[w].pc = "idle"
    /\ LET w == CHOOSE x \in WorkerIds :
                  /\ workers[x].pc = "idle"
                  /\ \A y \in WorkerIds : workers[y].pc = "idle" => x <= y
       IN
       /\ workers' = [workers EXCEPT ![w] =
              [IdleWorker EXCEPT !.pc = "started", !.args = d]]
       /\ lastCall' = [op |-> "call_api", callback |-> TRUE,
                       out |-> Return(Thread(w)), sent |-> <<>>, threads |-> 1]
    /\ UNCHANGED <<clientVars, last_response, mappings, writers, kw>>

\* the thread runs __call_api up to session.request: the header update, a
\* session of its own, the method check and the request going out
WorkerSend(w) ==
    /\ workers[w].pc = "started"
    /\ LET d == workers[w].args
           sess == [id |-> w, headers |-> default_headers]
           s == request_send(d.method, configuration.host \o d.path, sess,
                             EffectiveHeaders(d.header_params, d.body), d.body)
       IN
       /\ mappings' = UpdatedMappings(d.header_params, d.body)
       /\ writers' = WroteSession(
                        WroteMapping(
                          [writers EXCEPT !.sessions[sess.id] = @ \cup {w}],
                          d.header_params, d.body, w),
                        sess.id, s.sent, w)
       /\ workers' = [workers EXCEPT ![w] =
              [@ EXCEPT !.session = sess,
                        !.pc = IF s.raised THEN "raised" ELSE "waiting",
                        !.result = IF s.raised
                                   THEN Raise(InvalidHttpMethodError)
                                   ELSE NoOutcome]]
    /\ UNCHANGED <<clientVars, last_response, lastCall, kw>>

\* the response arrives: request validates it, and __call_api stores the
\* result; an exception leaves __call_api and ends the thread
WorkerReceive(w, response) ==
    /\ workers[w].pc = "waiting"
    /\ LET out == request_receive(response) IN
       /\ workers' = [workers EXCEPT ![w] =
              [@ EXCEPT !.response = response, !.result = out,
                        !.pc = IF out.kind = "return" THEN "received" ELSE "raised"]]
       /\ last_response' = IF out.kind = "return"
                           THEN Present(out.value) ELSE last_response
       /\ writers' = WroteLast(writers, out, w)
    /\ UNCHANGED <<clientVars, mappings, lastCall, kw>>

WorkerCallback_Last(w) ==
    /\ workers[w].pc = "received"
    /\ workers' = [workers EXCEPT ![w] =
           [@ EXCEPT !.callback = Append(@, last_response.value),
                     !.pc = "done"]]
    /\ UNCHANGED <<clientVars, last_response, mappings, writers, lastCall, kw>>
\* callback(processed_response)
WorkerCallback(w) ==
    /\ workers[w].pc = "received"
    /\ workers' = [workers EXCEPT ![w] =
           [@ EXCEPT !.callback = Append(@, workers[w].result.value),
                     !.pc = "done"]]
    /\ UNCHANGED <<clientVars, last_response, mappings, writers, lastCall, kw>>

-----------------------------------------------------------------------------
(* clean_kwargs. *)

\* params['kwargs']: a dict in the order of its entries, <<key, value>> each
Kwargs(items) == [t |-> "kwargs", items |-> items]

RECURSIVE clean_loop(_, _, _)
\* the for loop over iteritems(params['kwargs']), at the entries left
clean_loop(all_params, params, items) ==
    IF items = <<>> THEN Return(params)
    ELSE LET key == Head(items)[1]
             val == Head(items)[2]
         IN  IF key \notin all_params
             THEN Raise(TypeError(key))
             ELSE clean_loop(all_params, DictUpdate(params, key, val), Tail(items))

clean_kwargs_Keep(all_params, params) ==
    clean_loop(all_params, params, params["kwargs"].items)
\* clean_kwargs: the loop, then del params['kwargs']
clean_kwargs(all_params, params) ==
    LET merged == clean_loop(all_params, params, params["kwargs"].items) IN
    IF merged.kind = "raise" THEN merged
    ELSE Return([k \in DOMAIN merged.value \ {"kwargs"} |-> merged.value[k]])

KwKeys == {"user_id", "limit", "kwargs"}
KwValues == {Num(1), Num(2)}

\* the entry lists of at most n entries, no key twice
RECURSIVE KwItems(_)
KwItems(n) ==
    IF n = 0 THEN {<<>>}
    ELSE LET shorter == KwItems(n - 1) IN
         shorter \cup
         {Append(items, <<k, v>>) :
            items \in {i \in shorter : Len(i) = n - 1},
            k \in KwKeys, v \in KwValues}

KeysOf(items) == {items[i][1] : i \in 1..Len(items)}

KwInputs ==
    {items \in KwItems(MaxKwargs) : Cardinality(KeysOf(items)) = Len(items)}

\* the params mappings a helper hands over: locals() with the bucket in it
KwParams ==
    {[k \in {"kwargs"} |-> Kwargs(items)] : items \in KwInputs}
    \cup
    {[k \in {"kwargs", "user_id"} |->
        IF k = "kwargs" THEN Kwargs(items) ELSE Num(0)] : items \in KwInputs}

CleanKwargsCall(all_params, params) ==
    /\ kw' = [pc |-> "called", all_params |-> all_params, params |-> params,
              out |-> clean_kwargs(all_params, params)]
    /\ UNCHANGED <<clientVars, last_response, mappings, writers, lastCall, workers>>

KwNext == \E all_params \in SUBSET KwKeys, params \in KwParams :
              CleanKwargsCall(all_params, params)

KwSpec == Init /\ [][KwNext]_vars

-----------------------------------------------------------------------------
(* The specifications. *)

\* calls on the calling thread only: request over every response, call_api
\* over the responses that separate its outcomes
SeqNext ==
    \/ \E d \in SeqDescriptors, r \in Responses : RequestCall(d, r)
    \/ \E d \in SeqDescriptors, r \in CallResponses : SyncCall(d, r)

SeqSpec == Init /\ [][SeqNext]_vars

\* synchronous calls and threaded calls together
Next ==
    \/ \E d \in ConcDescriptors, r \in CallResponses : SyncCall(d, r)
    \/ \E d \in AsyncDescriptors : AsyncCall(d)
    \/ \E w \in WorkerIds : WorkerSend(w)
    \/ \E w \in WorkerIds, r \in CallResponses : WorkerReceive(w, r)
    \/ \E w \in WorkerIds : WorkerCallback(w)

\* one client, its token with the scheme marker already on it
ConcInit == Init /\ raw_token = "Bearer abc"

Spec == ConcInit /\ [][Next]_vars

\* a started thread is scheduled until it ends; nothing makes the service answer
FairSpec ==
    Spec /\ \A w \in WorkerIds : WF_vars(WorkerSend(w)) /\ WF_vars(WorkerCallback(w))

-----------------------------------------------------------------------------
(* The properties. *)

\* the invocation that last ended was request or call_api without a callback,
\* and its HTTP request went out and was answered
Answered ==
    /\ lastCall.op \in {"request", "call_api"}
    /\ ~lastCall.callback
    /\ lastCall.sent # <<>>

\* the Response Result of a response: its status code, its headers and the
\* parsed JSON of its body
ResultOf(response) ==
    [status_code |-> response.status_code, headers |-> response.headers,
     body |-> json(response.text).value]

IsSuccess(response) ==
    response.status_code \in 200..204 /\ json(response.text).kind = "return"

\* the body is a JSON object whose "error" entry is an object with code 283
IsNotFound(response) ==
    /\ response.status_code = 400
    /\ LET parsed == json(response.text) IN
       /\ parsed.kind = "return"
       /\ parsed.value.t = "dict"
       /\ "error" \in DOMAIN parsed.value.f
       /\ parsed.value.f["error"].t = "dict"
       /\ "code" \in DOMAIN parsed.value.f["error"].f
       /\ parsed.value.f["error"].f["code"] = Num(283)

\* C1: a response with a status code in 200..204 and a body that parses as
\* JSON makes request, and a synchronous call_api, return the result of
\* exactly status_code, headers and body, the body being the parsed JSON
C1_SuccessReturnsResult ==
    (Answered /\ IsSuccess(lastCall.response))
        => lastCall.out = Return(ResultOf(lastCall.response))

C1_Witness ==
    /\ Answered
    /\ lastCall.op = "call_api"
    /\ lastCall.response.status_code = 204
    /\ lastCall.out.kind = "return"
    /\ lastCall.out.value.body = Dict(NoEntries)

\* C2: a 400 response whose body carries error code 283 makes the call fail
\* with ResourceNotFoundError, and no other response does
C2_NotFoundIffCode283 ==
    /\ (Answered /\ IsNotFound(lastCall.response))
          => lastCall.out = Raise(ResourceNotFoundError)
    /\ (lastCall.op # "none" /\ Raised(lastCall.out, "ResourceNotFoundError"))
          => (Answered /\ IsNotFound(lastCall.response))

C2_Witness ==
    /\ Answered
    /\ lastCall.op = "request"
    /\ IsNotFound(lastCall.response)
    /\ Raised(lastCall.out, "ResourceNotFoundError")

\* C3: every response that is neither a success with a JSON body nor the
\* 400 with code 283 makes the call fail with HttpCodeError carrying that
\* response, and with no other error
C3_OtherwiseHttpCodeError ==
    (Answered /\ ~IsSuccess(lastCall.response) /\ ~IsNotFound(lastCall.response))
        => lastCall.out = Raise(HttpCodeError(lastCall.response))

\* C4: a method outside GET, POST, PUT, DELETE makes request fail with
\* InvalidHttpMethodError before any HTTP request is issued, and a method
\* inside the set never does
C4_InvalidMethodBeforeIO ==
    (lastCall.op # "none" /\ ~lastCall.callback) =>
        IF lastCall.method \in {"GET", "POST", "PUT", "DELETE"}
        THEN ~Raised(lastCall.out, "InvalidHttpMethodError")
        ELSE /\ lastCall.out = Raise(InvalidHttpMethodError)
             /\ lastCall.sent = <<>>

C4_Witness ==
    /\ lastCall.op = "request"
    /\ lastCall.method = "PATCH"
    /\ Raised(lastCall.out, "InvalidHttpMethodError")
    /\ lastCall.sent = <<>>

\* C5: the stored token, and the Authorization header of the client and of
\* its sessions, begins with "Bearer": a raw token that begins with it is
\* stored as it is, any other as "Bearer", a space and the raw token; and
\* the configuration stays as construction left it
C5_TokenHasBearer ==
    /\ Prefix(access_token, 6) = "Bearer"
    /\ access_token = IF Prefix(raw_token, 6) = "Bearer"
                      THEN raw_token ELSE "Bearer " \o raw_token
    /\ default_headers["Authorization"] = access_token
    /\ session.headers["Authorization"] = access_token
    /\ \A w \in WorkerIds :
          workers[w].session # NoSession
              => workers[w].session.headers["Authorization"] = access_token
    /\ configuration = [host |-> Host]

\* C6: call_api without a callback starts no thread and hands its result to
\* the caller; with a callback it starts one thread and returns its handle
\* before that thread has issued anything, and once the thread's request has
\* succeeded the callback is called, once, with the result of the response
C6_CallbackGetsResult ==
    /\ [][(lastCall' # lastCall /\ lastCall'.op = "call_api") =>
            IF lastCall'.callback
            THEN /\ lastCall'.out.kind = "return"
                 /\ lastCall'.out.value.t = "thread"
                 /\ LET w == lastCall'.out.value.id IN
                    /\ workers[w].pc = "idle"
                    /\ workers'[w].pc = "started"
                    /\ writers'.sessions[w] = {}
                    /\ \A x \in WorkerIds \ {w} : workers'[x] = workers[x]
            ELSE /\ workers' = workers
                 /\ (lastCall'.sent # <<>> /\ IsSuccess(lastCall'.response))
                       => lastCall'.out = Return(ResultOf(lastCall'.response))]_vars
    /\ [](\A w \in WorkerIds :
            /\ Len(workers[w].callback) <= 1
            /\ workers[w].callback # <<>> =>
                  /\ workers[w].pc = "done"
                  /\ workers[w].session.id # session.id
                  /\ workers[w].callback[1] = ResultOf(workers[w].response))
    /\ \A w \in WorkerIds :
          (workers[w].pc = "received") ~>
              (/\ workers[w].pc = "done"
               /\ workers[w].callback = <<ResultOf(workers[w].response)>>)

C6_Witness ==
    \E w \in WorkerIds :
        /\ workers[w].pc = "done"
        /\ workers[w].callback = <<ResultOf(workers[w].response)>>
        /\ last_response.set
        /\ last_response.value # workers[w].callback[1]

\* C7: an error raised in the thread of an asynchronous call is caught there
\* and handed to the callback or logged: no thread ends with the exception
\* leaving __call_api and the callback never called
C7_WorkerErrorsRouted ==
    \A w \in WorkerIds :
        ~(workers[w].pc = "raised" /\ workers[w].callback = <<>>)

\* C8: no shared object but last_response is written by more than one
\* thread: a thread of an asynchronous call uses a session of its own, never
\* the primary one, and writes no mapping another thread writes
C8_NoSharedWrites ==
    /\ \A m \in MappingIds : Cardinality(writers.mappings[m]) <= 1
    /\ \A s \in Threads : Cardinality(writers.sessions[s]) <= 1
    /\ \A w \in WorkerIds :
          workers[w].session # NoSession => workers[w].session.id # session.id

AllAllowed == KeysOf(kw.params["kwargs"].items) \subseteq kw.all_params

\* the value the bucket gives key k
KwValueOf(k) ==
    LET items == kw.params["kwargs"].items
        i == CHOOSE j \in 1..Len(items) : items[j][1] = k
    IN  items[i][2]

\* C9: when every key of params['kwargs'] is in all_params, clean_kwargs
\* returns params with every entry of the bucket under its own key and no
\* 'kwargs' key; when some key is not, it fails with a TypeError that names
\* such a key
C9_MergeOrTypeError ==
    kw.pc = "called" =>
        IF AllAllowed
        THEN /\ kw.out.kind = "return"
             /\ "kwargs" \notin DOMAIN kw.out.value
             /\ \A k \in KeysOf(kw.params["kwargs"].items) :
                   k \in DOMAIN kw.out.value /\ kw.out.value[k] = KwValueOf(k)
        ELSE /\ Raised(kw.out, "TypeError")
             /\ kw.out.error.key \in KeysOf(kw.params["kwargs"].items) \ kw.all_params

\* C9, amended: as C9, for the entries of the bucket whose key is not
\* 'kwargs' itself; the other entries of params stay as they were
C9_MergeOrTypeError_Amended ==
    kw.pc = "called" =>
        IF AllAllowed
        THEN /\ kw.out.kind = "return"
             /\ DOMAIN kw.out.value =
                   (DOMAIN kw.params \cup KeysOf(kw.params["kwargs"].items))
                       \ {"kwargs"}
             /\ \A k \in DOMAIN kw.out.value :
                   kw.out.value[k] =
                       IF k \in KeysOf(kw.params["kwargs"].items)
                       THEN KwValueOf(k) ELSE kw.params[k]
        ELSE /\ Raised(kw.out, "TypeError")
             /\ kw.out.error.key \in KeysOf(kw.params["kwargs"].items) \ kw.all_params

C9_Witness ==
    /\ kw.pc = "called"
    /\ AllAllowed
    /\ "kwargs" \in KeysOf(kw.params["kwargs"].items)
    /\ Len(kw.params["kwargs"].items) = 2
    /\ "user_id" \in DOMAIN kw.params
    /\ kw.out.kind = "return"
    /\ kw.out.value # kw.params

\* C10: after a synchronous call_api, returned or raised, last_response can
\* be read, and after one that returned it holds what that call returned
C10_LastResponseReadable ==
    (lastCall.op = "call_api" /\ ~lastCall.callback) =>
        /\ last_response.set
        /\ lastCall.out.kind = "return" => last_response.value = lastCall.out.value

====
